---------------------------- MODULE Spec2Model ----------------------------
(***************************************************************************)
(* Model of static/service_worker.js (OLX Monitor PWA): the install and    *)
(* activate listeners over the platform's named-cache store, the fetch     *)
(* listener and the push listener.  Platform operations the handlers call  *)
(* (caches.open, cache.addAll, caches.keys, caches.delete, fetch,          *)
(* showNotification) are steps whose outcome is chosen nondeterministically*)
(* among the outcomes the platform can produce.                            *)
(***************************************************************************)
EXTENDS Integers, Sequences, FiniteSets, TLC

(***************************************************************************)
(* Bounds of the model.                                                    *)
(***************************************************************************)
\* number of cache names other than CACHE_NAME that may exist
MaxStale == 2
\* number of times the script is registered (install, then activate)
MaxRuns == 2

(***************************************************************************)
(* Configuration constants of the script.                                  *)
(***************************************************************************)
CACHE_NAME == "olx-monitor-v1"

urlsToCache ==
    << "/", "/static/icon-192.png", "/static/icon-512.png", "/static/manifest.json" >>

Range(s) == { s[i] : i \in DOMAIN s }

\* names of caches left behind by other versions of the script
StaleCandidates == << "olx-monitor-v0", "olx-monitor-v2", "olx-monitor-beta", "tmp-cache" >>

StaleNames ==
    { StaleCandidates[i] : i \in { j \in DOMAIN StaleCandidates : j <= MaxStale } }

AllCacheNames == StaleNames \cup {CACHE_NAME}

\* what a cache of another version holds
StaleContents == { "/", "/static/old-icon.png" }

(***************************************************************************)
(* State of the lifecycle part: the named-cache store, the worker's        *)
(* lifecycle state kept by the platform, and the position of the install   *)
(* and activate handlers' promise chains.                                  *)
(***************************************************************************)
VARIABLES
    cacheStore,       \* function: existing cache name -> set of stored URLs
    workerState,      \* "parsed", "installing", "installed", "activating", "activated", "redundant"
    activeWorker,     \* 0: the version active before this script; r: the worker of run r
    skipWaitingFlag,  \* self.skipWaiting() was called
    claimed,          \* self.clients.claim() was called
    run,              \* number of the current registration of the script
    installPc,        \* "idle", "opening", "adding", "done"
    installPromise,   \* promise given to install's waitUntil: "none", "pending", "fulfilled", "rejected"
    installFailure,   \* what failed in this install run: "none", "open", "fetch", "store"
    fetchedOk,        \* resources addAll has fetched so far
    addedByRun,       \* resources this install run wrote into the cache
    activeAtInstall,  \* activeWorker when this run's install event was dispatched
    activatePc,       \* "idle", "keys", "deleting", "done"
    activatePromise,  \* promise given to activate's waitUntil
    delRequested,     \* names caches.delete was called with in this activate run
    delPending,       \* deletions requested and not yet settled
    delOk,            \* deletions that resolved (cache removed)
    delFailed,        \* deletions that rejected (cache kept)
    delOrder,         \* order in which the deletions settled
    storeAtActivate,  \* cacheStore when this run's activate event was dispatched
    activations,      \* number of activate events dispatched so far
    prevActivation,   \* how the previous activate run ended: "none", "clean", "unclean"
    storeAfterPrev,   \* cacheStore as the previous activate run left it
    prevOrder,        \* order in which the deletions of the previous activate run settled
    skipWaitingPromise,  \* promise self.skipWaiting() returned: "none", "pending", "resolved"
    claimPromise         \* promise self.clients.claim() returned: "none", "pending", "resolved"

lifecycleVars ==
    << cacheStore, workerState, activeWorker, skipWaitingFlag, claimed, run,
       installPc, installPromise, installFailure, fetchedOk, addedByRun,
       activeAtInstall, activatePc, activatePromise, delRequested, delPending,
       delOk, delFailed, delOrder, storeAtActivate, activations, prevActivation,
       storeAfterPrev, prevOrder, skipWaitingPromise, claimPromise >>

\* the promises the handlers start and give to nothing
sidePromises == << skipWaitingPromise, claimPromise >>

prevVars == << prevActivation, storeAfterPrev, prevOrder >>

installVars ==
    << installPc, installPromise, installFailure, fetchedOk, addedByRun, activeAtInstall >>

activateVars ==
    << activatePc, activatePromise, delRequested, delPending, delOk, delFailed,
       delOrder, storeAtActivate, activations >>

(***************************************************************************)
(* State of the fetch part: the fetch events in flight.                    *)
(***************************************************************************)
VARIABLES
    reqState,      \* per fetch event: "idle", "pending", "responded"
    reqUrl,        \* per fetch event: the URL of event.request
    netOutcome,    \* per fetch event: how fetch(event.request) settled
    pageResponse,  \* per fetch event: what the promise given to respondWith settled to
    attempts       \* per fetch event: number of calls of fetch(event.request)

fetchVars == << reqState, reqUrl, netOutcome, pageResponse, attempts >>

(***************************************************************************)
(* State of the push part: the push event being handled and the            *)
(* notification the platform displays.                                     *)
(***************************************************************************)
VARIABLES
    pushPc,           \* "idle", "handled" (the handler has returned)
    pushEvent,        \* event.data of the push event being handled
    pushResult,       \* how the handler ended: "none", "ignored", "caught", "shown", "threw"
    pushLogged,       \* console.error was called for this event
    pushRequest,      \* the notification showNotification was called with
    pushPromise,      \* promise given to push's waitUntil
    displayed,        \* the notification the platform shows
    displayedBefore,  \* displayed when this push event was dispatched
    prevMalformed     \* the previous push event carried a payload that is not JSON

pushVars ==
    << pushPc, pushEvent, pushResult, pushLogged, pushRequest, pushPromise,
       displayed, displayedBefore, prevMalformed >>

(***************************************************************************)
(* State of the notificationclick part: the click event being handled.     *)
(***************************************************************************)
VARIABLES
    clickPc,              \* "idle", "matching", "focusing", "opening", "done"
    clickAction,          \* event.action: "" (the body was clicked), "open", "dismiss"
    clickNotification,    \* event.notification
    openWindowSupported,  \* the platform of this event has clients.openWindow
    clickLog,             \* the platform calls of this event, in order
    clickTarget,          \* the URL the handler resolved
    clickPromise,         \* promise given to notificationclick's waitUntil
    enumerated,           \* clients.matchAll has resolved
    windowClients,        \* the list clients.matchAll resolved to (the URL of each window)
    focusedIndex,         \* position in windowClients of the client focus() was called on, or 0
    openedUrl             \* the URL clients.openWindow was called with

clickVars ==
    << clickPc, clickAction, clickNotification, openWindowSupported, clickLog,
       clickTarget, clickPromise, enumerated, windowClients, focusedIndex, openedUrl >>

nonLifecycleVars == << fetchVars, pushVars, clickVars >>

nonFetchVars == << lifecycleVars, pushVars, clickVars >>

nonPushVars == << lifecycleVars, fetchVars, clickVars >>

nonClickVars == << lifecycleVars, fetchVars, pushVars >>

----------------------------------------------------------------------------
(***************************************************************************)
(* The cache store.                                                        *)
(***************************************************************************)
CacheNamesOf(store) == DOMAIN store

\* caches.open(name): the cache is created empty when it does not exist
CachesOpen(store, name) ==
    [ n \in DOMAIN store \cup {name} |-> IF n \in DOMAIN store THEN store[n] ELSE {} ]

\* caches.delete(name) that resolves: the cache and its contents are gone
CachesDelete(store, name) ==
    [ n \in DOMAIN store \ {name} |-> store[n] ]

\* the store with the contents of cache `name` replaced
CachePut(store, name, contents) ==
    [ n \in DOMAIN store |-> IF n = name THEN contents ELSE store[n] ]

\* a sequential cache.add per resource keeps what was fetched before a failure
AddAllWrittenEach(fetched, ok) == fetched

\* cache.addAll(urlsToCache): what the batch writes when it settles. The batch
\* is atomic: every fetched response is written, or, on a failure, none.
AddAllWritten(fetched, ok) == IF ok THEN fetched ELSE {}

\* a catch that swallows the failure would fulfil the promise
InstallPromiseSwallowed(failure) == "fulfilled"

\* the promise caches.open(...).then(cache => cache.addAll(...)) has no catch:
\* it rejects when either step fails
InstallPromiseOf(failure) == IF failure = "none" THEN "fulfilled" ELSE "rejected"

\* the comparison dropped: every cache is deleted
IsStaleAlways(cacheName) == TRUE

\* cacheName !== CACHE_NAME
IsStale(cacheName) == cacheName # CACHE_NAME

\* a loop that returns its first caches.delete, like the loop of notificationclick
DeletesStartedFirstOnly(cacheNames) ==
    LET stale == { n \in cacheNames : IsStale(n) }
    IN  IF stale = {} THEN {} ELSE { CHOOSE n \in stale : TRUE }

\* cacheNames.map(...): caches.delete is called, synchronously, for every
\* stale name of the list before any deletion settles
DeletesStarted(cacheNames) == { n \in cacheNames : IsStale(n) }

\* Promise.all over the deletions (the entries of the current name are
\* undefined, which counts as fulfilled): rejected as soon as one deletion
\* rejects, fulfilled once all have resolved
PromiseAll(requested, ok, failed) ==
    IF failed # {} THEN "rejected"
    ELSE IF ok = requested THEN "fulfilled"
    ELSE "pending"

----------------------------------------------------------------------------
InitLifecycle ==
    /\ \E stale \in SUBSET StaleNames, hasCurrent \in BOOLEAN :
          cacheStore =
              [ n \in stale \cup (IF hasCurrent THEN {CACHE_NAME} ELSE {}) |->
                  IF n = CACHE_NAME THEN Range(urlsToCache) ELSE StaleContents ]
    /\ workerState = "parsed"
    /\ activeWorker = 0
    /\ skipWaitingFlag = FALSE
    /\ claimed = FALSE
    /\ run = 1
    /\ installPc = "idle"
    /\ installPromise = "none"
    /\ installFailure = "none"
    /\ fetchedOk = {}
    /\ addedByRun = {}
    /\ activeAtInstall = 0
    /\ activatePc = "idle"
    /\ activatePromise = "none"
    /\ delRequested = {}
    /\ delPending = {}
    /\ delOk = {}
    /\ delFailed = {}
    /\ delOrder = << >>
    /\ storeAtActivate = cacheStore
    /\ activations = 0
    /\ prevActivation = "none"
    /\ storeAfterPrev = cacheStore
    /\ prevOrder = << >>
    /\ skipWaitingPromise = "none"
    /\ claimPromise = "none"

(***************************************************************************)
(* install listener                                                        *)
(***************************************************************************)
\* the handler body: caches.open is started, its chain is given to waitUntil,
\* and self.skipWaiting() is called
InstallDispatch ==
    /\ workerState = "parsed"
    /\ workerState' = "installing"
    /\ installPc' = "opening"
    /\ installPromise' = "pending"
    /\ installFailure' = "none"
    /\ fetchedOk' = {}
    /\ addedByRun' = {}
    /\ activeAtInstall' = activeWorker
    /\ skipWaitingFlag' = TRUE
    /\ skipWaitingPromise' = "pending"
    /\ UNCHANGED << nonLifecycleVars, claimPromise, cacheStore, activeWorker, claimed, run,
                    activateVars, prevVars >>

\* caches.open(CACHE_NAME) resolves
CacheOpenOk ==
    /\ installPc = "opening"
    /\ cacheStore' = CachesOpen(cacheStore, CACHE_NAME)
    /\ installPc' = "adding"
    /\ UNCHANGED << nonLifecycleVars, sidePromises, workerState, activeWorker, skipWaitingFlag, claimed, run,
                    installPromise, installFailure, fetchedOk, addedByRun,
                    activeAtInstall, activateVars, prevVars >>

\* caches.open(CACHE_NAME) rejects
CacheOpenFail ==
    /\ installPc = "opening"
    /\ installPc' = "done"
    /\ installFailure' = "open"
    /\ installPromise' = InstallPromiseOf("open")
    /\ UNCHANGED << nonLifecycleVars, sidePromises, cacheStore, workerState, activeWorker, skipWaitingFlag, claimed,
                    run, fetchedOk, addedByRun, activeAtInstall, activateVars,
                    prevVars >>

\* addAll fetches one resource of the list with an ok response
AddAllFetchOk(u) ==
    /\ installPc = "adding"
    /\ u \in Range(urlsToCache) \ fetchedOk
    /\ fetchedOk' = fetchedOk \cup {u}
    /\ UNCHANGED << nonLifecycleVars, sidePromises, cacheStore, workerState, activeWorker, skipWaitingFlag, claimed,
                    run, installPc, installPromise, installFailure, addedByRun,
                    activeAtInstall, activateVars, prevVars >>

\* what addAll leaves in the cache and in the promise when it settles
AddAllSettle(failure) ==
    LET written == AddAllWritten(fetchedOk, failure = "none")
    IN  /\ cacheStore' = CachePut(cacheStore, CACHE_NAME, cacheStore[CACHE_NAME] \cup written)
        /\ addedByRun' = written
        /\ installPc' = "done"
        /\ installFailure' = failure
        /\ installPromise' = InstallPromiseOf(failure)
        /\ UNCHANGED << nonLifecycleVars, sidePromises, workerState, activeWorker, skipWaitingFlag, claimed, run,
                        fetchedOk, activeAtInstall, activateVars, prevVars >>

\* the fetch of one resource fails (network error or a non-ok status)
AddAllFetchFail(u) ==
    /\ installPc = "adding"
    /\ u \in Range(urlsToCache) \ fetchedOk
    /\ AddAllSettle("fetch")

\* every resource was fetched and the batch is written
AddAllCommit ==
    /\ installPc = "adding"
    /\ fetchedOk = Range(urlsToCache)
    /\ AddAllSettle("none")

\* every resource was fetched and writing the batch fails (storage error)
AddAllStoreFail ==
    /\ installPc = "adding"
    /\ fetchedOk = Range(urlsToCache)
    /\ AddAllSettle("store")

\* the platform, once the promise given to waitUntil has settled: the worker
\* is installed when it fulfilled and discarded when it rejected
InstallSettle ==
    /\ workerState = "installing"
    /\ installPc = "done"
    /\ workerState' = IF installPromise = "fulfilled" THEN "installed" ELSE "redundant"
    /\ UNCHANGED << nonLifecycleVars, sidePromises, cacheStore, activeWorker, skipWaitingFlag, claimed, run,
                    installVars, activateVars, prevVars >>

(***************************************************************************)
(* activate listener                                                       *)
(***************************************************************************)
\* the platform activates an installed worker without waiting for the pages of
\* the active one to close, the skip-waiting flag being set; the handler body
\* starts caches.keys(), gives its chain to waitUntil and calls
\* self.clients.claim()
ActivateDispatch ==
    /\ workerState = "installed"
    /\ skipWaitingFlag
    /\ workerState' = "activating"
    /\ activeWorker' = run
    /\ activatePc' = "keys"
    /\ activatePromise' = "pending"
    /\ delRequested' = {}
    /\ delPending' = {}
    /\ delOk' = {}
    /\ delFailed' = {}
    /\ delOrder' = << >>
    /\ storeAtActivate' = cacheStore
    /\ activations' = activations + 1
    /\ claimed' = TRUE
    /\ claimPromise' = "pending"
    /\ UNCHANGED << nonLifecycleVars, skipWaitingPromise, cacheStore, skipWaitingFlag, run,
                    installVars, prevVars >>

\* caches.keys() resolves and the then-callback runs
KeysOk ==
    /\ activatePc = "keys"
    /\ LET started == DeletesStarted(CacheNamesOf(cacheStore))
       IN  /\ delRequested' = started
           /\ delPending' = started
           /\ activatePromise' = PromiseAll(started, {}, {})
    /\ activatePc' = "deleting"
    /\ UNCHANGED << nonLifecycleVars, sidePromises, cacheStore, workerState, activeWorker, skipWaitingFlag, claimed,
                    run, installVars, delOk, delFailed, delOrder, storeAtActivate,
                    activations, prevVars >>

\* caches.keys() rejects
KeysFail ==
    /\ activatePc = "keys"
    /\ activatePc' = "done"
    /\ activatePromise' = "rejected"
    /\ UNCHANGED << nonLifecycleVars, sidePromises, cacheStore, workerState, activeWorker, skipWaitingFlag, claimed,
                    run, installVars, delRequested, delPending, delOk, delFailed,
                    delOrder, storeAtActivate, activations, prevVars >>

\* caches.delete(n) resolves
DeleteOk(n) ==
    /\ activatePc = "deleting"
    /\ n \in delPending
    /\ cacheStore' = CachesDelete(cacheStore, n)
    /\ delPending' = delPending \ {n}
    /\ delOk' = delOk \cup {n}
    /\ delOrder' = Append(delOrder, n)
    /\ activatePromise' = PromiseAll(delRequested, delOk', delFailed)
    /\ UNCHANGED << nonLifecycleVars, sidePromises, workerState, activeWorker, skipWaitingFlag, claimed, run,
                    installVars, activatePc, delRequested, delFailed, storeAtActivate,
                    activations, prevVars >>

\* caches.delete(n) rejects
DeleteFail(n) ==
    /\ activatePc = "deleting"
    /\ n \in delPending
    /\ delPending' = delPending \ {n}
    /\ delFailed' = delFailed \cup {n}
    /\ delOrder' = Append(delOrder, n)
    /\ activatePromise' = PromiseAll(delRequested, delOk, delFailed')
    /\ UNCHANGED << nonLifecycleVars, sidePromises, cacheStore, workerState, activeWorker, skipWaitingFlag, claimed,
                    run, installVars, activatePc, delRequested, delOk, storeAtActivate,
                    activations, prevVars >>

\* the platform, once the promise given to waitUntil has settled either way:
\* the worker is activated
ActivateSettle ==
    /\ workerState = "activating"
    /\ activatePromise \in { "fulfilled", "rejected" }
    /\ workerState' = "activated"
    /\ UNCHANGED << nonLifecycleVars, sidePromises, cacheStore, activeWorker, skipWaitingFlag, claimed, run,
                    installVars, activateVars, prevVars >>

\* the platform has run the steps of self.skipWaiting() and resolves its promise
SkipWaitingResolve ==
    /\ skipWaitingPromise = "pending"
    /\ skipWaitingPromise' = "resolved"
    /\ UNCHANGED << nonLifecycleVars, claimPromise, cacheStore, workerState, activeWorker,
                    skipWaitingFlag, claimed, run, installVars, activateVars, prevVars >>

\* the platform has made the worker the controller of the open pages and
\* resolves the promise of self.clients.claim()
ClaimResolve ==
    /\ claimPromise = "pending"
    /\ claimPromise' = "resolved"
    /\ UNCHANGED << nonLifecycleVars, skipWaitingPromise, cacheStore, workerState,
                    activeWorker, skipWaitingFlag, claimed, run, installVars,
                    activateVars, prevVars >>

\* the activate run of this registration is over: nothing it started is pending
ActivationOver ==
    /\ workerState = "activated"
    /\ delPending = {}

\* the script is registered again (after an unregistration, or a roll-back of
\* the deployed script to this version): a fresh worker, the same cache store
Reregister ==
    /\ run < MaxRuns
    /\ \/ workerState = "redundant"
       \/ ActivationOver
    /\ skipWaitingPromise # "pending"
    /\ claimPromise # "pending"
    /\ skipWaitingPromise' = "none"
    /\ claimPromise' = "none"
    /\ run' = run + 1
    /\ workerState' = "parsed"
    /\ skipWaitingFlag' = FALSE
    /\ claimed' = FALSE
    /\ installPc' = "idle"
    /\ installPromise' = "none"
    /\ activatePc' = "idle"
    /\ activatePromise' = "none"
    /\ prevActivation' =
          IF workerState = "redundant" THEN prevActivation
          ELSE IF activatePc = "deleting" /\ delFailed = {} THEN "clean"
          ELSE "unclean"
    /\ storeAfterPrev' = IF workerState = "redundant" THEN storeAfterPrev ELSE cacheStore
    /\ prevOrder' = IF workerState = "redundant" THEN prevOrder ELSE delOrder
    /\ UNCHANGED << nonLifecycleVars, cacheStore, activeWorker, installFailure, fetchedOk, addedByRun,
                    activeAtInstall, delRequested, delPending, delOk, delFailed,
                    delOrder, storeAtActivate, activations >>

NextLifecycle ==
    \/ InstallDispatch
    \/ CacheOpenOk
    \/ CacheOpenFail
    \/ \E u \in Range(urlsToCache) : AddAllFetchOk(u)
    \/ \E u \in Range(urlsToCache) : AddAllFetchFail(u)
    \/ AddAllCommit
    \/ AddAllStoreFail
    \/ InstallSettle
    \/ ActivateDispatch
    \/ KeysOk
    \/ KeysFail
    \/ \E n \in AllCacheNames : DeleteOk(n)
    \/ \E n \in AllCacheNames : DeleteFail(n)
    \/ ActivateSettle
    \/ SkipWaitingResolve
    \/ ClaimResolve
    \/ Reregister

----------------------------------------------------------------------------
(***************************************************************************)
(* fetch listener                                                          *)
(***************************************************************************)
\* number of fetch events that may be in flight at once
MaxRequests == 2

FallbackStatus == 503

RequestIds == 1 .. MaxRequests

RequestUrls == { "/", "/api/ads" }

\* what the network can deliver: a response of any status, or a rejection
NetworkResponses ==
    { [ kind |-> "response", status |-> st, statusText |-> "from network",
        body |-> "network body" ] : st \in { 200, 404, 500, 503 } }

Rejection == [ kind |-> "rejection" ]

NetworkOutcomes == NetworkResponses \cup { Rejection }

NoResponse == [ kind |-> "none" ]

\* a catch that returns a generic error response instead
CatchHandlerPlain == [ kind |-> "response", status |-> 500, statusText |-> "Error", body |-> "" ]

\* the catch callback: new Response('Offline - conecte à internet', {...})
CatchHandler ==
    [ kind |-> "response", status |-> FallbackStatus,
      statusText |-> "Service Unavailable", body |-> "Offline - conecte à internet" ]

\* a handler that also replaces the error responses the network delivered
RespondWithOkOnly(outcome) ==
    IF outcome.kind = "rejection" THEN CatchHandler
    ELSE IF outcome.status >= 500 THEN CatchHandler
    ELSE outcome

\* a handler that answers from the cache of the current version when the
\* network fetch rejects
RespondWithCacheFirst(outcome) ==
    IF outcome.kind = "rejection"
    THEN IF CACHE_NAME \in DOMAIN cacheStore /\ cacheStore[CACHE_NAME] # {}
         THEN [ kind |-> "response", status |-> 200, statusText |-> "OK", body |-> "cached" ]
         ELSE CatchHandler
    ELSE outcome

\* fetch(event.request).catch(() => ...): a fulfilled fetch passes through
\* the catch untouched, a rejected one becomes the catch callback's value
RespondWith(outcome) ==
    IF outcome.kind = "rejection" THEN CatchHandler ELSE outcome

InitFetch ==
    /\ reqState = [ r \in RequestIds |-> "idle" ]
    /\ reqUrl = [ r \in RequestIds |-> "/" ]
    /\ netOutcome = [ r \in RequestIds |-> NoResponse ]
    /\ pageResponse = [ r \in RequestIds |-> NoResponse ]
    /\ attempts = [ r \in RequestIds |-> 0 ]

\* the handler body: fetch(event.request) is called once and its chain is
\* given to respondWith
FetchDispatch(r, url) ==
    /\ reqState[r] = "idle"
    /\ reqState' = [ reqState EXCEPT ![r] = "pending" ]
    /\ reqUrl' = [ reqUrl EXCEPT ![r] = url ]
    /\ attempts' = [ attempts EXCEPT ![r] = @ + 1 ]
    /\ UNCHANGED << nonFetchVars, netOutcome, pageResponse >>

\* what the settling of fetch(event.request) leaves behind: the promise given
\* to respondWith settles with it
NetworkSettle(r, outcome) ==
    /\ netOutcome' = [ netOutcome EXCEPT ![r] = outcome ]
    /\ pageResponse' = [ pageResponse EXCEPT ![r] = RespondWith(outcome) ]
    /\ reqState' = [ reqState EXCEPT ![r] = "responded" ]
    /\ UNCHANGED << nonFetchVars, reqUrl, attempts >>

\* the network delivers a response, whatever its status
NetworkResolve(r) ==
    /\ reqState[r] = "pending"
    /\ \E resp \in NetworkResponses : NetworkSettle(r, resp)

\* the network fetch rejects (offline, DNS failure)
NetworkReject(r) ==
    /\ reqState[r] = "pending"
    /\ NetworkSettle(r, Rejection)

NextFetch ==
    \/ \E r \in RequestIds, url \in RequestUrls : FetchDispatch(r, url)
    \/ \E r \in RequestIds : NetworkResolve(r)
    \/ \E r \in RequestIds : NetworkReject(r)

----------------------------------------------------------------------------
(***************************************************************************)
(* push listener                                                           *)
(***************************************************************************)
\* JavaScript's undefined: the value of a property an object does not carry
Undefined == "<undefined>"

\* the values `a || b` replaces by b
Falsy == { Undefined, "" }

\* a default applied only to a missing property, as `a ?? b` would
OrNullish(a, b) == IF a = Undefined THEN b ELSE a

\* a || b
Or(a, b) == IF a \in Falsy THEN b ELSE a

\* event.data of a push event without payload
NoData == [ kind |-> "absent" ]

\* a payload whose text is not JSON
Malformed == [ kind |-> "text", syntax |-> "malformed" ]

\* the objects a JSON payload may parse to: each field carried or not
PayloadObjects ==
    [ title : { Undefined, "", "Baixou o preco" },
      body  : { Undefined, "R$ 900" },
      icon  : { Undefined, "/static/ad.png" },
      image : { Undefined },
      tag   : { Undefined, "ad-7" },
      url   : { Undefined, "", "/ad/7", "https://olx.example/ad/7" },
      adId  : { Undefined } ]

\* the values a JSON payload may parse to
JsonValues ==
    { [ kind |-> "null" ], [ kind |-> "number" ] }
        \cup { [ kind |-> "object", fields |-> o ] : o \in PayloadObjects }

PushPayloads ==
    { NoData, Malformed }
        \cup { [ kind |-> "text", syntax |-> "ok", value |-> v ] : v \in JsonValues }

NoNotification == [ kind |-> "none" ]

\* the guard dropped: the handler goes on without a payload
HasDataAlways(data) == TRUE

\* event.data is not null
HasData(data) == data.kind # "absent"

\* event.data.json(): throws when there is no data object to call it on and
\* when the text is not JSON, and returns the parsed value otherwise
Json(data) ==
    IF data.kind = "absent" THEN [ threw |-> TRUE ]
    ELSE IF data.syntax = "malformed" THEN [ threw |-> TRUE ]
    ELSE [ threw |-> FALSE, value |-> data.value ]

\* a handler that builds a notification from objects only
CanReadPropertyOfObject(v) == v.kind = "object"

\* reading a property throws on null and nothing else
CanReadProperty(v) == v.kind # "null"

\* data.<name>: undefined on a value that is not an object
Get(v, name) == IF v.kind = "object" THEN v.fields[name] ELSE Undefined

\* the options object built from the parsed payload
Options(data) ==
    [ body |-> Or(Get(data, "body"), "Alerta de preço!"),
      icon |-> Or(Get(data, "icon"), "/static/icon-192.png"),
      badge |-> "/static/icon-192.png",
      image |-> Get(data, "image"),
      tag |-> Or(Get(data, "tag"), "price-alert"),
      requireInteraction |-> TRUE,
      data |-> [ url |-> Get(data, "url"), adId |-> Get(data, "adId") ],
      actions |-> << [ action |-> "open", title |-> "Ver anúncio" ],
                     [ action |-> "dismiss", title |-> "Dispensar" ] >> ]

\* without the try/catch the exception leaves the handler
PushRethrow ==
    [ result |-> "threw", logged |-> FALSE, request |-> NoNotification, promise |-> "none" ]

\* catch (e) { console.error(...) }
PushCatch ==
    [ result |-> "caught", logged |-> TRUE, request |-> NoNotification, promise |-> "none" ]

\* the handler body, from the guard to its return
PushHandler(data) ==
    IF ~ HasData(data)
    THEN [ result |-> "ignored", logged |-> FALSE, request |-> NoNotification,
           promise |-> "none" ]
    ELSE LET parsed == Json(data)
         IN  IF parsed.threw \/ ~ CanReadProperty(parsed.value)
             THEN PushCatch
             ELSE [ result |-> "shown", logged |-> FALSE,
                    request |-> [ kind |-> "notification",
                                  title |-> Or(Get(parsed.value, "title"), "OLX Monitor"),
                                  options |-> Options(parsed.value) ],
                    promise |-> "pending" ]

InitPush ==
    /\ pushPc = "idle"
    /\ pushEvent = NoData
    /\ pushResult = "none"
    /\ pushLogged = FALSE
    /\ pushRequest = NoNotification
    /\ pushPromise = "none"
    /\ displayed = NoNotification
    /\ displayedBefore = NoNotification
    /\ prevMalformed = FALSE

\* a push event is delivered and the handler runs to its return
PushDispatch(data) ==
    /\ pushPc = "idle"
    /\ LET h == PushHandler(data)
       IN  /\ pushResult' = h.result
           /\ pushLogged' = h.logged
           /\ pushRequest' = h.request
           /\ pushPromise' = h.promise
    /\ pushPc' = "handled"
    /\ pushEvent' = data
    /\ displayedBefore' = displayed
    /\ UNCHANGED << nonPushVars, displayed, prevMalformed >>

\* the platform displays the notification and showNotification resolves
ShowNotificationResolve ==
    /\ pushPc = "handled"
    /\ pushPromise = "pending"
    /\ displayed' = pushRequest
    /\ pushPromise' = "fulfilled"
    /\ UNCHANGED << nonPushVars, pushPc, pushEvent, pushResult, pushLogged,
                    pushRequest, displayedBefore, prevMalformed >>

\* showNotification rejects (no permission to notify)
ShowNotificationReject ==
    /\ pushPc = "handled"
    /\ pushPromise = "pending"
    /\ pushPromise' = "rejected"
    /\ UNCHANGED << nonPushVars, pushPc, pushEvent, pushResult, pushLogged,
                    pushRequest, displayed, displayedBefore, prevMalformed >>

\* the platform ends the event once nothing extends its lifetime
PushEventEnd ==
    /\ pushPc = "handled"
    /\ pushPromise # "pending"
    /\ pushPc' = "idle"
    /\ prevMalformed' = (pushEvent = Malformed)
    /\ pushEvent' = NoData
    /\ pushResult' = "none"
    /\ pushLogged' = FALSE
    /\ pushRequest' = NoNotification
    /\ pushPromise' = "none"
    /\ displayedBefore' = displayed
    /\ UNCHANGED << nonPushVars, displayed >>

NextPush ==
    \/ \E data \in PushPayloads : PushDispatch(data)
    \/ ShowNotificationResolve
    \/ ShowNotificationReject
    \/ PushEventEnd

----------------------------------------------------------------------------
(***************************************************************************)
(* notificationclick listener                                              *)
(***************************************************************************)
\* number of windows clients.matchAll may list
MaxWindows == 2

\* event.action values: the notification body, or one of the two buttons
ClickActions == { "", "open", "dismiss" }

\* client.url of a window: always an absolute URL
WindowUrls ==
    { "https://olx.example/", "https://olx.example/ad/7", "https://olx.example/ad/7/" }

\* the lists clients.matchAll({ type: 'window', ... }) may resolve to
WindowLists == UNION { [ 1 .. k -> WindowUrls ] : k \in 0 .. MaxWindows }

\* a notification shown by the page itself, with no data attached
ForeignNotification == [ kind |-> "foreign" ]

\* the notifications that can be clicked: those the push handler requests,
\* and one it did not create
ClickableNotifications ==
    { PushHandler(p).request : p \in { q \in PushPayloads : PushHandler(q).result = "shown" } }
        \cup { ForeignNotification }

NoUrl == "<none>"

\* the dismiss check dropped
ShouldRouteAlways(action) == TRUE

\* event.action === 'dismiss' returns from the handler
ShouldRoute(action) == action # "dismiss"

\* the close placed after the dismiss check
ClickSyncCallsCloseLate(action) ==
    IF ShouldRoute(action) THEN << "close", "matchAll" >> ELSE << >>

\* the platform calls of the handler body, in order: notification.close(),
\* then, unless dismissed, clients.matchAll
ClickSyncCalls(action) ==
    << "close" >> \o (IF ShouldRoute(action) THEN << "matchAll" >> ELSE << >>)

\* the payload's url taken as it is, without the default
TargetUrlRaw(n) ==
    IF n.kind = "foreign" THEN "/" ELSE OrNullish(n.options.data.url, "/")

\* event.notification.data?.url || '/'
TargetUrl(n) ==
    IF n.kind = "foreign" THEN "/" ELSE Or(n.options.data.url, "/")

\* a URL without its trailing slash
StripSlash(u) ==
    IF u = "https://olx.example/ad/7/" THEN "https://olx.example/ad/7" ELSE u

\* a comparison that ignores a trailing slash
UrlMatchesNormalized(clientUrl, url) == StripSlash(clientUrl) = StripSlash(url)

\* client.url === url && 'focus' in client (every client of type 'window'
\* has focus)
UrlMatches(clientUrl, url) == clientUrl = url

\* the for loop: the first client of the list that matches, or 0
FirstMatch(list, url) ==
    LET hits == { i \in DOMAIN list : UrlMatches(list[i], url) }
    IN  IF hits = {} THEN 0 ELSE CHOOSE i \in hits : \A j \in hits : i <= j

\* the capability check dropped
OpenWindowAlways(supported) == TRUE

\* if (clients.openWindow)
OpenWindowChecked(supported) == supported

\* the then-callback of clients.matchAll: what it calls and returns
ThenCallback(list, url, supported) ==
    LET i == FirstMatch(list, url)
    IN  IF i # 0 THEN [ call |-> "focus", index |-> i ]
        ELSE IF OpenWindowChecked(supported)
             THEN IF supported THEN [ call |-> "openWindow", index |-> 0 ]
                  ELSE [ call |-> "throw", index |-> 0 ]
             ELSE [ call |-> "none", index |-> 0 ]

InitClick ==
    /\ clickPc = "idle"
    /\ clickAction = ""
    /\ clickNotification = ForeignNotification
    /\ openWindowSupported = TRUE
    /\ clickLog = << >>
    /\ clickTarget = NoUrl
    /\ clickPromise = "none"
    /\ enumerated = FALSE
    /\ windowClients = << >>
    /\ focusedIndex = 0
    /\ openedUrl = NoUrl

\* a notificationclick event is delivered and the handler runs to its return
ClickDispatch(n, action, supported) ==
    /\ clickPc = "idle"
    /\ clickNotification' = n
    /\ clickAction' = action
    /\ openWindowSupported' = supported
    /\ clickLog' = ClickSyncCalls(action)
    /\ IF ShouldRoute(action)
       THEN /\ clickTarget' = TargetUrl(n)
            /\ clickPromise' = "pending"
            /\ clickPc' = "matching"
       ELSE /\ clickTarget' = NoUrl
            /\ clickPromise' = "none"
            /\ clickPc' = "done"
    /\ UNCHANGED << nonClickVars, enumerated, windowClients, focusedIndex, openedUrl >>

\* clients.matchAll resolves and the then-callback runs
MatchAllResolve(list) ==
    /\ clickPc = "matching"
    /\ enumerated' = TRUE
    /\ windowClients' = list
    /\ LET t == ThenCallback(list, clickTarget, openWindowSupported)
       IN  /\ focusedIndex' = t.index
           /\ openedUrl' = IF t.call = "openWindow" THEN clickTarget ELSE NoUrl
           /\ clickLog' = IF t.call \in { "focus", "openWindow" }
                          THEN Append(clickLog, t.call) ELSE clickLog
           /\ clickPc' = CASE t.call = "focus" -> "focusing"
                           [] t.call = "openWindow" -> "opening"
                           [] OTHER -> "done"
           /\ clickPromise' = CASE t.call = "none" -> "fulfilled"
                                [] t.call = "throw" -> "rejected"
                                [] OTHER -> "pending"
    /\ UNCHANGED << nonClickVars, clickAction, clickNotification, openWindowSupported,
                    clickTarget >>

\* clients.matchAll rejects
MatchAllReject ==
    /\ clickPc = "matching"
    /\ clickPc' = "done"
    /\ clickPromise' = "rejected"
    /\ UNCHANGED << nonClickVars, clickAction, clickNotification, openWindowSupported,
                    clickLog, clickTarget, enumerated, windowClients, focusedIndex,
                    openedUrl >>

\* client.focus() or clients.openWindow(url) settles, and with it the promise
\* given to waitUntil
WindowCallSettle(outcome) ==
    /\ clickPc' = "done"
    /\ clickPromise' = outcome
    /\ UNCHANGED << nonClickVars, clickAction, clickNotification, openWindowSupported,
                    clickLog, clickTarget, enumerated, windowClients, focusedIndex,
                    openedUrl >>

FocusResolve ==
    /\ clickPc = "focusing"
    /\ WindowCallSettle("fulfilled")

FocusReject ==
    /\ clickPc = "focusing"
    /\ WindowCallSettle("rejected")

OpenWindowResolve ==
    /\ clickPc = "opening"
    /\ WindowCallSettle("fulfilled")

OpenWindowReject ==
    /\ clickPc = "opening"
    /\ WindowCallSettle("rejected")

\* the platform ends the event once nothing extends its lifetime
ClickEventEnd ==
    /\ clickPc = "done"
    /\ clickPc' = "idle"
    /\ clickAction' = ""
    /\ clickNotification' = ForeignNotification
    /\ openWindowSupported' = TRUE
    /\ clickLog' = << >>
    /\ clickTarget' = NoUrl
    /\ clickPromise' = "none"
    /\ enumerated' = FALSE
    /\ windowClients' = << >>
    /\ focusedIndex' = 0
    /\ openedUrl' = NoUrl
    /\ UNCHANGED nonClickVars

NextClick ==
    \/ \E n \in ClickableNotifications, action \in ClickActions, supported \in BOOLEAN :
          ClickDispatch(n, action, supported)
    \/ \E list \in WindowLists : MatchAllResolve(list)
    \/ MatchAllReject
    \/ FocusResolve
    \/ FocusReject
    \/ OpenWindowResolve
    \/ OpenWindowReject
    \/ ClickEventEnd

----------------------------------------------------------------------------
vars == << lifecycleVars, fetchVars, pushVars, clickVars >>

Init == InitLifecycle /\ InitFetch /\ InitPush /\ InitClick

\* the install and activate events of the script's registrations
SpecLifecycle == Init /\ [][NextLifecycle]_vars

\* the fetch events
SpecFetch == Init /\ [][NextFetch]_vars

\* the push events
SpecPush == Init /\ [][NextPush]_vars

\* the state after construction on a platform that holds no cache yet
InitEmptyStore == Init /\ DOMAIN cacheStore = {}

\* the notificationclick events
SpecClick == InitEmptyStore /\ [][NextClick]_vars

\* the state after construction on a platform that holds the cache of one
\* other version
InitOneStale ==
    /\ Init
    /\ cacheStore = [ n \in { StaleCandidates[1] } |-> StaleContents ]

\* the push payload and the click delivered while fetch events are in flight
ConcurrentPayload ==
    [ kind |-> "text", syntax |-> "ok",
      value |-> [ kind |-> "object",
                  fields |-> [ title |-> "Baixou o preco", body |-> "R$ 900",
                               icon |-> Undefined, image |-> Undefined,
                               tag |-> Undefined, url |-> "/ad/7",
                               adId |-> Undefined ] ] ]

\* fetch events in flight while one install, one activate, one push and one
\* notificationclick event are being handled: the steps of all handlers
\* interleave freely
NextConcurrent ==
    \/ \E r \in RequestIds, url \in RequestUrls : FetchDispatch(r, url)
    \/ \E r \in RequestIds : NetworkResolve(r)
    \/ \E r \in RequestIds : NetworkReject(r)
    \/ InstallDispatch
    \/ CacheOpenOk
    \/ CacheOpenFail
    \/ \E u \in Range(urlsToCache) : AddAllFetchOk(u)
    \/ AddAllCommit
    \/ InstallSettle
    \/ SkipWaitingResolve
    \/ ActivateDispatch
    \/ KeysOk
    \/ \E n \in AllCacheNames : DeleteOk(n)
    \/ \E n \in AllCacheNames : DeleteFail(n)
    \/ ActivateSettle
    \/ ClaimResolve
    \/ PushDispatch(ConcurrentPayload)
    \/ ShowNotificationResolve
    \/ ClickDispatch(ForeignNotification, "", TRUE)
    \/ MatchAllResolve(<< >>)
    \/ OpenWindowResolve

SpecConcurrent == InitOneStale /\ [][NextConcurrent]_vars

----------------------------------------------------------------------------
(***************************************************************************)
(* Properties of the install and activate listeners (SpecLifecycle).       *)
(***************************************************************************)
AllUrls == Range(urlsToCache)

StaleOf(store) == { n \in DOMAIN store : n # "olx-monitor-v1" }

\* C1: an install run is all-or-nothing. What a run has written into the
\* cache 'olx-monitor-v1' is, in every state, nothing or the whole fixed list,
\* and so are the contents of that cache; a run whose promise fulfilled has
\* stored every resource of the list in that cache, and a run whose promise
\* rejected has added none.
InstallAllOrNothing ==
    /\ addedByRun \in { {}, AllUrls }
    /\ "olx-monitor-v1" \in DOMAIN cacheStore
          => cacheStore["olx-monitor-v1"] \in { {}, AllUrls }
    /\ installPromise = "fulfilled"
          => /\ "olx-monitor-v1" \in DOMAIN cacheStore
             /\ cacheStore["olx-monitor-v1"] = AllUrls
             /\ addedByRun = AllUrls
    /\ installPromise = "rejected" => addedByRun = {}

\* an install run that failed after fetching three of the four resources has
\* left the cache it created empty
InstallFailedAfterPartialFetch ==
    /\ installPc = "done"
    /\ installFailure = "fetch"
    /\ Cardinality(fetchedOk) = 3
    /\ "olx-monitor-v1" \in DOMAIN cacheStore
    /\ cacheStore["olx-monitor-v1"] = {}

\* C2: when opening the cache, a fetch or the write fails during install, the
\* promise given to waitUntil is rejected, and although skipWaiting was
\* called the worker is never installed nor activated: the worker that was
\* active when the install event was dispatched is still the active one.
InstallFailureSurfaced ==
    (installPc = "done" /\ installFailure # "none")
        => /\ installPromise = "rejected"
           /\ skipWaitingFlag
           /\ workerState \in { "installing", "redundant" }
           /\ activeWorker = activeAtInstall

\* the second registration failed to install and was discarded, and the
\* worker of the first registration is still the active one
SecondInstallDiscarded ==
    /\ run = 2
    /\ workerState = "redundant"
    /\ installFailure \in { "open", "fetch", "store" }
    /\ skipWaitingFlag
    /\ activeWorker = 1

\* C3: once an activate run over a store holding the current name has had
\* every deletion succeed, the existing cache names are exactly
\* {'olx-monitor-v1'} and that cache holds what it held before.
ActivationLeavesOnlyCurrent ==
    ( /\ activatePc = "deleting"
      /\ delPending = {}
      /\ delFailed = {}
      /\ "olx-monitor-v1" \in DOMAIN storeAtActivate )
        => /\ DOMAIN cacheStore = { "olx-monitor-v1" }
           /\ cacheStore["olx-monitor-v1"] = storeAtActivate["olx-monitor-v1"]

\* an activate run that found two stale caches beside the current one has
\* deleted both
ActivationDeletedTwoStale ==
    /\ activatePc = "deleting"
    /\ delPending = {}
    /\ delFailed = {}
    /\ Cardinality(StaleOf(storeAtActivate)) = 2
    /\ DOMAIN cacheStore = { "olx-monitor-v1" }

\* the result of an activate run whose deletions have all settled depends on
\* which deletions succeeded and not on the order in which they settled
ActivationOrderIrrelevant ==
    (activatePc = "deleting" /\ delPending = {})
        => cacheStore = [ n \in DOMAIN storeAtActivate \ delOk |-> storeAtActivate[n] ]

\* C4 as stated: a second activate run, with no cache created in between,
\* requests no deletion and leaves the store as the first run left it, and
\* the result of a run does not depend on the order of the deletions.
ActivationIdempotent ==
    /\ (activations >= 2 /\ activatePc \in { "deleting", "done" })
          => /\ delRequested = {}
             /\ cacheStore = storeAfterPrev
    /\ ActivationOrderIrrelevant

\* C4 as amended: an activate run that follows a run in which the listing
\* and every deletion succeeded, with no cache created in between, requests
\* no deletion and leaves the store as that run left it; and the result of a
\* run does not depend on the order of the deletions.
ActivationIdempotentAfterCleanRun ==
    /\ (prevActivation = "clean" /\ activatePc \in { "deleting", "done" })
          => /\ delRequested = {}
             /\ cacheStore = storeAfterPrev
    /\ ActivationOrderIrrelevant

\* the first run deleted two stale caches, the second of the candidates
\* first, and the second run has listed the caches and requested nothing
SecondActivationAfterCleanRun ==
    /\ prevActivation = "clean"
    /\ Len(prevOrder) = 2
    /\ prevOrder[1] = StaleCandidates[2]
    /\ activations = 2
    /\ activatePc = "deleting"
    /\ delRequested = {}
    /\ activatePromise = "fulfilled"

\* C5: when the deletion of a stale cache fails during activation, the
\* promise given to activate's waitUntil is not rejected.
DeletionFailureTolerated ==
    (activatePc = "deleting" /\ delFailed # {}) => activatePromise # "rejected"

\* C6: the deletions of an activate run are independent. caches.delete is
\* requested for every stale cache of the listing, whatever fails; every
\* request is pending or settled; and every cache whose deletion succeeded is
\* gone while every other cache of the listing is still there.
DeletionsIndependent ==
    activatePc = "deleting"
        => /\ delRequested = StaleOf(storeAtActivate)
           /\ delRequested = delPending \cup delOk \cup delFailed
           /\ DOMAIN cacheStore = DOMAIN storeAtActivate \ delOk

\* a deletion failed first and the deletion of the other stale cache then
\* succeeded
DeletionSucceededAfterFailure ==
    /\ activatePc = "deleting"
    /\ Len(delOrder) = 2
    /\ delOrder[1] \in delFailed
    /\ delOrder[2] \in delOk
    /\ delOrder[2] \notin DOMAIN cacheStore
    /\ delOrder[1] \in DOMAIN cacheStore

(***************************************************************************)
(* Properties of the fetch listener (SpecFetch).                           *)
(***************************************************************************)
\* C7: a fetch event whose network fetch delivered a response hands the page
\* exactly that response, whatever its status.
NetworkResponseUnmodified ==
    \A r \in RequestIds :
        (reqState[r] = "responded" /\ netOutcome[r].kind = "response")
            => pageResponse[r] = netOutcome[r]

\* the network delivered a 500 and the page received it
ServerErrorPassedThrough ==
    \E r \in RequestIds :
        /\ reqState[r] = "responded"
        /\ netOutcome[r].kind = "response"
        /\ netOutcome[r].status = 500
        /\ pageResponse[r].status = 500
        /\ pageResponse[r].body = "network body"

\* C8: a fetch event whose network fetch rejected hands the page the fixed
\* fallback response (503, 'Service Unavailable', 'Offline - conecte à
\* internet') and not a rejection, after exactly one network attempt; the
\* fallback is the same for every request.
FallbackOnRejection ==
    \A r \in RequestIds :
        (reqState[r] = "responded" /\ netOutcome[r].kind = "rejection")
            => /\ pageResponse[r] =
                    [ kind |-> "response", status |-> 503,
                      statusText |-> "Service Unavailable",
                      body |-> "Offline - conecte à internet" ]
               /\ attempts[r] = 1

\* two requests for different URLs were both rejected by the network and
\* both received the fallback
TwoRequestsFellBack ==
    /\ reqState[1] = "responded"
    /\ reqState[2] = "responded"
    /\ reqUrl[1] # reqUrl[2]
    /\ netOutcome[1].kind = "rejection"
    /\ netOutcome[2].kind = "rejection"
    /\ pageResponse[1].status = 503
    /\ pageResponse[2] = pageResponse[1]

(***************************************************************************)
(* Properties of the push listener (SpecPush).                             *)
(***************************************************************************)
\* C9: a push event without payload requests no notification, gives nothing
\* to waitUntil, raises and logs no error, and leaves the displayed
\* notification as it was.
PushWithoutPayloadIgnored ==
    (pushPc = "handled" /\ pushEvent.kind = "absent")
        => /\ pushRequest.kind = "none"
           /\ pushPromise = "none"
           /\ pushResult = "ignored"
           /\ ~ pushLogged
           /\ displayed = displayedBefore

\* a push event without payload was handled while a notification of an
\* earlier push was displayed
PushWithoutPayloadHandled ==
    /\ pushPc = "handled"
    /\ pushEvent.kind = "absent"
    /\ pushResult = "ignored"
    /\ displayed.kind = "notification"

\* C10: a push event whose payload does not parse ends in the handler's catch
\* block: no notification is requested, nothing is given to waitUntil and no
\* error leaves the handler; and the push event that follows it, when it
\* carries an object, has its notification requested.
PushParseFailureCaught ==
    /\ (pushPc = "handled" /\ pushEvent.kind = "text" /\ pushEvent.syntax = "malformed")
          => /\ pushResult = "caught"
             /\ pushRequest.kind = "none"
             /\ pushPromise = "none"
             /\ displayed = displayedBefore
    /\ ( /\ prevMalformed
         /\ pushPc = "handled"
         /\ pushEvent.kind = "text"
         /\ pushEvent.syntax = "ok"
         /\ pushEvent.value.kind = "object" )
          => /\ pushResult = "shown"
             /\ pushRequest.kind = "notification"

\* a malformed payload was handled, and the push that followed it, carrying
\* an object, has its notification displayed
PushAfterMalformedShown ==
    /\ prevMalformed
    /\ pushPc = "handled"
    /\ pushEvent.kind = "text"
    /\ pushEvent.syntax = "ok"
    /\ pushResult = "shown"
    /\ pushPromise = "fulfilled"
    /\ displayed = pushRequest

\* the value the payload of the push event being handled carries for a field
PayloadField(name) ==
    IF pushEvent.value.kind = "object" THEN pushEvent.value.fields[name] ELSE "<undefined>"

\* the displayed title, body, icon and tag of the notification requested
ShownFields ==
    [ title |-> pushRequest.title, body |-> pushRequest.options.body,
      icon |-> pushRequest.options.icon, tag |-> pushRequest.options.tag ]

FixedDefaults ==
    [ title |-> "OLX Monitor", body |-> "Alerta de preço!",
      icon |-> "/static/icon-192.png", tag |-> "price-alert" ]

\* C11 as stated: each of title, body, icon and tag of the notification is
\* the payload's value when the payload carries the field, and the fixed
\* default exactly when the field is absent.
DefaultsExactlyWhenAbsent ==
    pushResult = "shown"
        => \A f \in DOMAIN FixedDefaults :
              ShownFields[f] =
                  IF PayloadField(f) = "<undefined>" THEN FixedDefaults[f]
                  ELSE PayloadField(f)

\* C11 as amended: each of title, body, icon and tag of the notification is
\* the payload's value when the payload carries a non-empty value for the
\* field, and the fixed default when the field is absent or carries the
\* empty string.
DefaultsWhenAbsentOrEmpty ==
    pushResult = "shown"
        => \A f \in DOMAIN FixedDefaults :
              ShownFields[f] =
                  IF PayloadField(f) \in { "<undefined>", "" } THEN FixedDefaults[f]
                  ELSE PayloadField(f)

\* a payload carrying an empty title and a body was shown with the default
\* title and its own body
EmptyTitleShownAsDefault ==
    /\ pushResult = "shown"
    /\ pushEvent.value.kind = "object"
    /\ pushEvent.value.fields.title = ""
    /\ pushEvent.value.fields.body = "R$ 900"
    /\ pushRequest.title = "OLX Monitor"
    /\ pushRequest.options.body = "R$ 900"

(***************************************************************************)
(* Properties of the notificationclick listener (SpecClick).               *)
(***************************************************************************)
CountOf(log, call) == Cardinality({ i \in DOMAIN log : log[i] = call })

\* the positions of windowClients whose URL is the target, character for
\* character
ExactMatches == { i \in DOMAIN windowClients : windowClients[i] = clickTarget }

\* C12: for every notificationclick event, whatever its action, the
\* notification is closed, once, and the close is the first platform call of
\* the event: it precedes every window enumeration, focus and open.
CloseComesFirst ==
    clickPc # "idle"
        => /\ Len(clickLog) >= 1
           /\ clickLog[1] = "close"
           /\ CountOf(clickLog, "close") = 1

\* an 'open' click closed the notification, enumerated the windows and
\* focused one, in that order
ClosedThenEnumeratedThenFocused ==
    /\ clickAction = "open"
    /\ clickLog = << "close", "matchAll", "focus" >>

\* C13: for a notificationclick event with action 'dismiss', the notification
\* is closed and no window is enumerated, focused or opened, and nothing is
\* given to waitUntil, whatever the notification.
DismissOnlyCloses ==
    (clickPc # "idle" /\ clickAction = "dismiss")
        => /\ clickLog = << "close" >>
           /\ ~ enumerated
           /\ focusedIndex = 0
           /\ openedUrl = "<none>"
           /\ clickPromise = "none"

\* a notification carrying a URL was dismissed
DismissedNotificationWithUrl ==
    /\ clickPc = "done"
    /\ clickAction = "dismiss"
    /\ clickNotification.kind = "notification"
    /\ clickNotification.options.data.url = "https://olx.example/ad/7"
    /\ clickLog = << "close" >>

\* C14: for a non-dismiss click, once the windows are enumerated: if a
\* window's URL equals the target URL character for character, focus() is
\* called on one such window and no window is opened; and a window that is
\* focused always has exactly the target URL.
ExactMatchFocused ==
    (clickAction # "dismiss" /\ enumerated)
        => /\ ExactMatches # {}
              => /\ focusedIndex \in ExactMatches
                 /\ CountOf(clickLog, "focus") = 1
                 /\ openedUrl = "<none>"
                 /\ CountOf(clickLog, "openWindow") = 0
           /\ focusedIndex # 0 => focusedIndex \in ExactMatches

\* two windows are listed, the first differing from the target by a trailing
\* slash only: the second one was focused
SecondWindowFocused ==
    /\ enumerated
    /\ clickTarget = "https://olx.example/ad/7"
    /\ windowClients = << "https://olx.example/ad/7/", "https://olx.example/ad/7" >>
    /\ focusedIndex = 2
    /\ clickPromise = "fulfilled"

\* C15: for a non-dismiss click, once the windows are enumerated and none has
\* the target URL: where the platform can open windows, openWindow is called
\* exactly once, with the target URL, and no window is focused; where it
\* cannot, no window is opened or focused and the promise given to waitUntil
\* is fulfilled.
NoMatchOpensWindow ==
    (clickAction # "dismiss" /\ enumerated /\ ExactMatches = {})
        => /\ focusedIndex = 0
           /\ CountOf(clickLog, "focus") = 0
           /\ openWindowSupported
                 => /\ CountOf(clickLog, "openWindow") = 1
                    /\ openedUrl = clickTarget
           /\ ~ openWindowSupported
                 => /\ CountOf(clickLog, "openWindow") = 0
                    /\ openedUrl = "<none>"
                    /\ clickPromise = "fulfilled"

\* on a platform without openWindow, a click whose target no listed window
\* has ended without a window call and without an error
NoMatchWithoutOpenWindow ==
    /\ clickPc = "done"
    /\ enumerated
    /\ ~ openWindowSupported
    /\ Len(windowClients) = 2
    /\ ExactMatches = {}
    /\ clickLog = << "close", "matchAll" >>
    /\ clickPromise = "fulfilled"

\* the payloads whose notification is the one that was clicked
PayloadsOfClicked ==
    { p \in PushPayloads :
        /\ PushHandler(p).result = "shown"
        /\ PushHandler(p).request = clickNotification }

UrlOfPayload(p) ==
    IF p.value.kind = "object" THEN p.value.fields.url ELSE "<undefined>"

\* every window call of the event is made at the target URL
WindowCallsAtTarget ==
    /\ focusedIndex # 0 => windowClients[focusedIndex] = clickTarget
    /\ openedUrl # "<none>" => openedUrl = clickTarget

\* C16 as stated: for a non-dismiss click, the target URL is the url of the
\* notification's data, which for a notification of the push handler is the
\* url of the payload that created it, and '/' when that url is absent; a
\* window is focused or opened at that URL only.
TargetIsPayloadUrl ==
    (clickPc # "idle" /\ clickAction # "dismiss")
        => /\ clickNotification.kind = "foreign" => clickTarget = "/"
           /\ \A p \in PayloadsOfClicked :
                 /\ clickNotification.options.data.url = UrlOfPayload(p)
                 /\ clickTarget =
                       IF UrlOfPayload(p) = "<undefined>" THEN "/" ELSE UrlOfPayload(p)
           /\ WindowCallsAtTarget

\* C16 as amended: the target URL is the payload's url when that url is
\* not empty, and '/' when it is absent or empty.
TargetIsPayloadUrlOrRoot ==
    (clickPc # "idle" /\ clickAction # "dismiss")
        => /\ clickNotification.kind = "foreign" => clickTarget = "/"
           /\ \A p \in PayloadsOfClicked :
                 /\ clickNotification.options.data.url = UrlOfPayload(p)
                 /\ clickTarget =
                       IF UrlOfPayload(p) \in { "<undefined>", "" } THEN "/"
                       ELSE UrlOfPayload(p)
           /\ WindowCallsAtTarget

\* the notification of a push carrying the url '/ad/7' was clicked on its
\* body and a window was opened at '/ad/7'
PushedUrlOpened ==
    /\ clickAction = ""
    /\ \E p \in PayloadsOfClicked : UrlOfPayload(p) = "/ad/7"
    /\ clickTarget = "/ad/7"
    /\ openedUrl = "/ad/7"
    /\ clickPromise = "fulfilled"

(***************************************************************************)
(* Properties of the lifetime extension of the handlers.                   *)
(***************************************************************************)
Settled(promise) == promise \in { "fulfilled", "rejected" }

\* C17: every asynchronous operation a handler starts is inside the promise
\* it gives to waitUntil: once that promise has settled (or the handler has
\* returned without giving one), no operation the handler began is pending.
\* For install these are the cache population and the skip-waiting signal,
\* for activate the deletions and the claiming of the open pages, for push
\* the notification display, for notificationclick the window enumeration,
\* focus and open.
AllWorkRegistered ==
    /\ Settled(installPromise)
          => /\ installPc = "done"
             /\ skipWaitingPromise # "pending"
    /\ Settled(activatePromise)
          => /\ delPending = {}
             /\ claimPromise # "pending"
    /\ (pushPc = "handled" /\ pushRequest.kind = "notification" /\ displayed # pushRequest)
          => pushPromise \in { "pending", "rejected" }
    /\ clickPc \in { "matching", "focusing", "opening" } => clickPromise = "pending"

\* C18: the promise a handler gives to waitUntil never settles before the
\* operations it depends on have finished: install's not before the cache
\* population has finished, activate's not before every deletion it started
\* has settled, push's not before the display is acknowledged,
\* notificationclick's not before the focus or open it started has finished.
PromiseWaitsForDependents ==
    /\ Settled(installPromise) => installPc = "done"
    /\ Settled(activatePromise) => delPending = {}
    /\ pushPromise = "fulfilled" => displayed = pushRequest
    /\ Settled(clickPromise) => clickPc \in { "done", "idle" }

(***************************************************************************)
(* Which push payloads are shown (SpecPush).                               *)
(***************************************************************************)
\* C19 as stated: every push event whose payload parses, whatever the value
\* it parses to, has its notification requested and its lifetime extended
\* until the display is acknowledged; only a parse failure or an absent
\* payload results in no notification.
EveryParsedPayloadShown ==
    pushPc = "handled"
        => /\ pushRequest.kind = "none"
                <=> (pushEvent.kind = "absent" \/ pushEvent.syntax = "malformed")
           /\ pushRequest.kind = "notification"
                => /\ pushPromise # "none"
                   /\ pushPromise = "fulfilled" => displayed = pushRequest

\* C19 as amended: every push event whose payload parses to a value other
\* than null has its notification requested and its lifetime extended until
\* the display is acknowledged; a parse failure, an absent payload and a
\* payload that parses to null result in no notification.
EveryNonNullPayloadShown ==
    pushPc = "handled"
        => /\ pushRequest.kind = "none"
                <=> \/ pushEvent.kind = "absent"
                    \/ pushEvent.syntax = "malformed"
                    \/ pushEvent.value.kind = "null"
           /\ pushRequest.kind = "notification"
                => /\ pushPromise # "none"
                   /\ pushPromise = "fulfilled" => displayed = pushRequest

\* a payload that parses to a number, which carries no field, has had the
\* notification of defaults displayed
NumberPayloadShown ==
    /\ pushPc = "handled"
    /\ pushEvent.kind = "text"
    /\ pushEvent.syntax = "ok"
    /\ pushEvent.value.kind = "number"
    /\ pushRequest.kind = "notification"
    /\ pushRequest.title = "OLX Monitor"
    /\ pushPromise = "fulfilled"
    /\ displayed = pushRequest

(***************************************************************************)
(* Properties of concurrent fetch events (SpecConcurrent).                 *)
(***************************************************************************)
\* the response the outcome of a request's own network fetch determines
OwnResponse(r) ==
    IF netOutcome[r].kind = "response" THEN netOutcome[r]
    ELSE [ kind |-> "response", status |-> 503, statusText |-> "Service Unavailable",
           body |-> "Offline - conecte à internet" ]

\* every answered request holds the response of its own network outcome,
\* after one network attempt
AnsweredFromOwnOutcome ==
    \A r \in RequestIds :
        reqState[r] = "responded"
            => /\ pageResponse[r] = OwnResponse(r)
               /\ attempts[r] = 1

\* a request is answered once: its response never changes afterwards
AnsweredOnce ==
    \A r \in RequestIds :
        reqState[r] = "responded"
            => /\ reqState'[r] = "responded"
               /\ pageResponse'[r] = pageResponse[r]
               /\ netOutcome'[r] = netOutcome[r]

\* a step of fetch handling changes neither the cache store nor anything
\* else of the other handlers
FetchStepLeavesOthers ==
    fetchVars' # fetchVars
        => /\ cacheStore' = cacheStore
           /\ nonFetchVars' = nonFetchVars

\* C20: with any number of fetch events in flight and any interleaving of
\* their network completions with each other and with the steps of the
\* install, activate, push and notificationclick handlers, every request
\* receives one response, the one its own network outcome determines (the
\* network response, or the fixed fallback on rejection), and fetch handling
\* leaves the cache store unchanged.
FetchEventsIndependent ==
    /\ [] AnsweredFromOwnOutcome
    /\ [][AnsweredOnce]_vars
    /\ [][FetchStepLeavesOthers]_vars

\* the first request fell back and the second received the network's 404
\* after the cache was populated, while the activate handler is deleting, a
\* push display is pending and a click is enumerating the windows
FetchesAnsweredAmidHandlers ==
    /\ reqState[1] = "responded"
    /\ netOutcome[1].kind = "rejection"
    /\ pageResponse[1].status = 503
    /\ reqState[2] = "responded"
    /\ pageResponse[2].status = 404
    /\ "olx-monitor-v1" \in DOMAIN cacheStore
    /\ cacheStore["olx-monitor-v1"] # {}
    /\ activatePc = "deleting"
    /\ delPending # {}
    /\ pushPromise = "pending"
    /\ clickPc = "matching"

=============================================================================
